---------------------------- MODULE Spec2Model ----------------------------
(***************************************************************************)
(* A model of bin/analyze_audio.py: one invocation of the feature          *)
(* extraction pipeline (main and extract_features), its standard output,   *)
(* standard error and exit status.                                         *)
(*                                                                         *)
(* The signal-processing library (librosa, numpy) is not part of the       *)
(* repository.  What it computes from a file is an input of the model: an  *)
(* audio file on disk is described by what the library yields on it (which *)
(* calls raise, how many analysis frames it has, the per-frame values).    *)
(* Floats are integers in units of the float resolution, plus NaN.         *)
(***************************************************************************)
EXTENDS Integers, Sequences, FiniteSets, TLC

(* ------------------------------ bounds --------------------------------- *)

\* Most positional arguments an invocation is given (0 .. MaxArgs).
MaxArgs == 3

\* Most analysis frames the library cuts a waveform into (1 .. MaxFrames).
MaxFrames == 2

(* ------------------------- program constants --------------------------- *)

\* len(sys.argv) of a well-formed call: the program name and two arguments.
ExpectedArgc == 3

\* n_mfcc of the librosa.feature.mfcc call.
N_MFCC == 13

\* The order in which extract_features runs the five feature computations.
SourceOrder == <<"pyin", "centroid", "rms", "zcr", "mfcc">>

Features == {SourceOrder[i] : i \in 1..Len(SourceOrder)}

\* The keys of the features dictionary, in insertion order.
FeatureKeys ==
    << "duration", "mean_f0", "std_f0",
       "mean_spectral_centroid", "std_spectral_centroid",
       "mean_rms_energy", "std_rms_energy",
       "mean_zcr", "std_zcr", "mfcc_means" >>

(* ------------------------------ floats --------------------------------- *)

Fl(v) == [nan |-> FALSE, v |-> v]

NaN == [nan |-> TRUE, v |-> 0]

RECURSIVE SumSeq(_)
SumSeq(a) == IF a = <<>> THEN 0 ELSE Head(a).v + SumSeq(Tail(a))

HasNaN(a) == \E i \in 1..Len(a) : a[i].nan

\* The integer square root, rounding down.
ISqrt(n) == CHOOSE r \in 0..n : r * r <= n /\ (r + 1) * (r + 1) > n

\* numpy.mean of a one-dimensional array: NaN for an empty array (numpy warns
\* and does not raise) and for an array holding a NaN.
NpMean(a) ==
    IF Len(a) = 0 \/ HasNaN(a) THEN NaN
    ELSE Fl(SumSeq(a) \div Len(a))

\* numpy.std (population standard deviation, ddof = 0).
NpStd(a) ==
    IF Len(a) = 0 \/ HasNaN(a) THEN NaN
    ELSE LET m  == SumSeq(a) \div Len(a)
             sq == [i \in 1..Len(a) |-> Fl((a[i].v - m) * (a[i].v - m))]
         IN  Fl(ISqrt(SumSeq(sq) \div Len(a)))

\* a[mask]: numpy's boolean-mask indexing, keeping the order.
RECURSIVE BoolIndex(_, _)
BoolIndex(a, mask) ==
    IF a = <<>> THEN <<>>
    ELSE (IF Head(mask) THEN <<Head(a)>> ELSE <<>>)
            \o BoolIndex(Tail(a), Tail(mask))

(* -------------------- the files and the library ------------------------ *)

\* The one file that exists; every other path is missing.
ExistingPath == "/tmp/phpA1"

\* The strings an argument can be.
ArgStrings == {ExistingPath, "voice.wav"}

\* The library calls made after the decode, in source order.
PostDecodeCalls == <<"duration">> \o SourceOrder

\* What pYIN reports for frame t: flagged voiced with an f0 of its own, or
\* unvoiced with NaN as its f0.
PitchFrame(t, voiced) ==
    IF voiced THEN [f0 |-> Fl(3 * t), voiced |-> TRUE]
    ELSE [f0 |-> NaN, voiced |-> FALSE]

\* An audio file, by what the library yields on it.
Audios ==
    { [decodes |-> FALSE, n_frames |-> 1, level |-> 0, raises |-> {},
       pitch |-> <<PitchFrame(1, FALSE)>>] }
    \cup
    UNION { [decodes  : {TRUE},
             n_frames : {n},
             level    : {0, 2},
             raises   : SUBSET {PostDecodeCalls[i] : i \in 1..Len(PostDecodeCalls)},
             pitch    : {[t \in 1..n |-> PitchFrame(t, flags[t])] :
                            flags \in [1..n -> BOOLEAN]}] : n \in 1..MaxFrames }

\* The text of the exception a library call raises.
ErrorText(call) ==
    CASE call = "missing"  -> "[Errno 2] No such file or directory"
      [] call = "load"     -> "NoBackendError"
      [] call = "duration" -> "ParameterError: duration"
      [] call = "pyin"     -> "ParameterError: pyin"
      [] call = "centroid" -> "ParameterError: spectral_centroid"
      [] call = "rms"      -> "ParameterError: rms"
      [] call = "zcr"      -> "ParameterError: zero_crossing_rate"
      [] call = "mfcc"     -> "ParameterError: mfcc"
      [] OTHER             -> "NameError"

Ok(val) == [err |-> "", val |-> val]

Raised(text) == [err |-> text, val |-> <<>>]

\* librosa.load(file_path, sr=None, duration=None): the waveform and its
\* sampling rate, or an exception.
LibLoad(dsk, file_path) ==
    IF file_path \notin DOMAIN dsk THEN Raised(ErrorText("missing"))
    ELSE IF ~dsk[file_path].decodes THEN Raised(ErrorText("load"))
    ELSE Ok([y |-> dsk[file_path], sr |-> 4])

\* librosa.get_duration(y=y, sr=sr): the number of samples over the rate.
LibGetDuration(y, sr) ==
    IF "duration" \in y.raises THEN Raised(ErrorText("duration"))
    ELSE Ok(Fl((y.n_frames * 8) \div sr))

\* librosa.pyin(y, fmin, fmax): per frame, f0 and the voiced flag.
LibPyin(y) ==
    IF "pyin" \in y.raises THEN Raised(ErrorText("pyin"))
    ELSE Ok([f0          |-> [t \in 1..y.n_frames |-> y.pitch[t].f0],
             voiced_flag |-> [t \in 1..y.n_frames |-> y.pitch[t].voiced]])

\* librosa.feature.spectral_centroid(y=y, sr=sr)[0]
LibSpectralCentroid(y, sr) ==
    IF "centroid" \in y.raises THEN Raised(ErrorText("centroid"))
    ELSE Ok([t \in 1..y.n_frames |-> Fl(y.level * (sr + 3 * t))])

\* librosa.feature.rms(y=y)[0]
LibRms(y) ==
    IF "rms" \in y.raises THEN Raised(ErrorText("rms"))
    ELSE Ok([t \in 1..y.n_frames |-> Fl(y.level * t)])

\* librosa.feature.zero_crossing_rate(y)[0]
LibZcr(y) ==
    IF "zcr" \in y.raises THEN Raised(ErrorText("zcr"))
    ELSE Ok([t \in 1..y.n_frames |-> Fl(y.level * (2 * t + 1))])

\* Cepstral coefficient i (from 0) of frame t.
Coefficient(y, i, t) == (y.level + 1) * (i + 1) - 20 + 3 * t

\* librosa.feature.mfcc(y=y, sr=sr, n_mfcc=n): n rows, one per coefficient,
\* each with one value per frame.
LibMfcc(y, sr, n_mfcc) ==
    IF "mfcc" \in y.raises THEN Raised(ErrorText("mfcc"))
    ELSE Ok([i \in 1..n_mfcc |->
                [t \in 1..y.n_frames |-> Fl(Coefficient(y, i - 1, t))]])


(* ------------------------- extract_features ---------------------------- *)

\* A namespace of local variables: a function from the bound names.
NoLocals == [n \in {} |-> 0]

\* name = val in the namespace loc.
Bind(loc, name, val) ==
    [n \in DOMAIN loc \cup {name} |-> IF n = name THEN val ELSE loc[n]]

\* As ComputeF0, with the standard deviation taken without the test for an
\* empty selection.
ComputeF0_UnguardedStd(loc) ==
    LET r == LibPyin(loc.y)
    IN  IF r.err # "" THEN r
        ELSE LET f0_voiced == BoolIndex(r.val.f0, r.val.voiced_flag)
                 mean_f0   == IF Len(f0_voiced) > 0 THEN NpMean(f0_voiced) ELSE Fl(0)
                 std_f0    == NpStd(f0_voiced)
             IN  Ok(Bind(Bind(loc, "mean_f0", mean_f0), "std_f0", std_f0))

\* 1. Fundamental frequency: pYIN, then the mean and the standard deviation
\* of f0 over the voiced frames, 0.0 for both when there is none.
ComputeF0(loc) ==
    LET r == LibPyin(loc.y)
    IN  IF r.err # "" THEN r
        ELSE LET f0_voiced == BoolIndex(r.val.f0, r.val.voiced_flag)
                 mean_f0   == IF Len(f0_voiced) > 0 THEN NpMean(f0_voiced) ELSE Fl(0)
                 std_f0    == IF Len(f0_voiced) > 0 THEN NpStd(f0_voiced) ELSE Fl(0)
             IN  Ok(Bind(Bind(loc, "mean_f0", mean_f0), "std_f0", std_f0))

\* 2. Spectral centroid: mean and standard deviation over all frames.
ComputeSpectralCentroid(loc) ==
    LET r == LibSpectralCentroid(loc.y, loc.sr)
    IN  IF r.err # "" THEN r
        ELSE Ok(Bind(Bind(loc, "mean_spectral_centroid", NpMean(r.val)),
                     "std_spectral_centroid", NpStd(r.val)))

\* As ComputeRms, with the energy taken relative to the mean spectral
\* centroid computed before it (a NameError when it is not bound yet).
ComputeRms_ReadsCentroid(loc) ==
    LET r == LibRms(loc.y)
    IN  IF r.err # "" THEN r
        ELSE IF "mean_spectral_centroid" \notin DOMAIN loc
        THEN Raised(ErrorText("name"))
        ELSE Ok(Bind(Bind(loc, "mean_rms_energy",
                          Fl(NpMean(r.val).v + loc.mean_spectral_centroid.v)),
                     "std_rms_energy", NpStd(r.val)))

\* 3. RMS energy.
ComputeRms(loc) ==
    LET r == LibRms(loc.y)
    IN  IF r.err # "" THEN r
        ELSE Ok(Bind(Bind(loc, "mean_rms_energy", NpMean(r.val)),
                     "std_rms_energy", NpStd(r.val)))

\* 4. Zero-crossing rate.
ComputeZcr(loc) ==
    LET r == LibZcr(loc.y)
    IN  IF r.err # "" THEN r
        ELSE Ok(Bind(Bind(loc, "mean_zcr", NpMean(r.val)),
                     "std_zcr", NpStd(r.val)))

\* As MfccMeans, iterating from the last row to the first.
MfccMeans_Reversed(mfccs) ==
    [i \in 1..Len(mfccs) |-> NpMean(mfccs[Len(mfccs) + 1 - i])]

\* [float(np.mean(mfccs[i])) for i in range(mfccs.shape[0])]
MfccMeans(mfccs) == [i \in 1..Len(mfccs) |-> NpMean(mfccs[i])]

\* As ComputeMfcc, with a failure of the MFCC call caught where it happens
\* and an empty list standing in for the means.
ComputeMfcc_Fallback(loc) ==
    LET r == LibMfcc(loc.y, loc.sr, N_MFCC)
    IN  IF r.err # "" THEN Ok(Bind(loc, "mfcc_means", <<>>))
        ELSE Ok(Bind(loc, "mfcc_means", MfccMeans(r.val)))

\* 5. MFCCs: the mean of each coefficient across time.
ComputeMfcc(loc) ==
    LET r == LibMfcc(loc.y, loc.sr, N_MFCC)
    IN  IF r.err # "" THEN r
        ELSE Ok(Bind(loc, "mfcc_means", MfccMeans(r.val)))

\* One of the five feature computations, on the namespace loc.
Compute(f, loc) ==
    CASE f = "pyin"     -> ComputeF0(loc)
      [] f = "centroid" -> ComputeSpectralCentroid(loc)
      [] f = "rms"      -> ComputeRms(loc)
      [] f = "zcr"      -> ComputeZcr(loc)
      [] f = "mfcc"     -> ComputeMfcc(loc)

\* As AssembleFeatures, with the std_zcr entry forgotten.
AssembleFeatures_NoStdZcr(loc) ==
    LET keys == SelectSeq(FeatureKeys, LAMBDA k : k # "std_zcr")
    IN  [k \in 1..Len(keys) |->
            IF keys[k] = "mfcc_means"
            THEN [key |-> keys[k], list |-> TRUE, val |-> loc.mfcc_means]
            ELSE [key |-> keys[k], list |-> FALSE, val |-> <<loc[keys[k]]>>]]

\* The features dictionary: its items in insertion order.  A scalar is a
\* one-element value with list = FALSE.
AssembleFeatures(loc) ==
    [k \in 1..Len(FeatureKeys) |->
        IF FeatureKeys[k] = "mfcc_means"
        THEN [key |-> FeatureKeys[k], list |-> TRUE, val |-> loc.mfcc_means]
        ELSE [key |-> FeatureKeys[k], list |-> FALSE,
              val |-> <<loc[FeatureKeys[k]]>>]]

\* As ErrorMessage, without the file path.
ErrorMessage_NoPath(original_filename, file_path, e) ==
    << "Error processing file '", original_filename, "': ", e >>

\* The message of the exception handler:
\* f"Error processing file '{original_filename}' ({file_path}): {e}"
ErrorMessage(original_filename, file_path, e) ==
    << "Error processing file '", original_filename, "' (", file_path, "): ", e >>

(* -------------------------------- main --------------------------------- *)

UsageMessage ==
    << "Usage: python3 analyze_audio.py <temp_file_path> <original_filename>" >>

\* As ArgcWrong, testing only for too few arguments (len(sys.argv) < 3).
ArgcWrong_TooFew(args) == Len(args) + 1 < ExpectedArgc

\* len(sys.argv) != 3, sys.argv being the program name and the arguments.
ArgcWrong(args) == Len(args) + 1 # ExpectedArgc

\* json's text of a float: NaN is written as the bare word NaN.
JsonFloat(x) == IF x.nan THEN [lit |-> "NaN", num |-> 0] ELSE [lit |-> "num", num |-> x.v]

\* json.dumps(features, separators=(',', ':')): one line of text, the items in
\* insertion order, each a key and the text of its value.
JsonDumps(items) ==
    [k \in 1..Len(items) |->
        [key  |-> items[k].key,
         list |-> items[k].list,
         text |-> [j \in 1..Len(items[k].val) |-> JsonFloat(items[k].val[j])]]]

(* ------------------------------- state --------------------------------- *)

VARIABLES
    argv,         \* the positional arguments (sys.argv[1:])
    disk,         \* the files: path |-> the audio it holds
    pc,           \* where the process is
    locals,       \* the namespace of extract_features
    todo,         \* the feature computations not yet run
    exc,          \* the exception in flight ("" for none)
    features,     \* main's features, once extract_features returned
    stdout,       \* the lines written to standard output
    stderr,       \* the lines written to standard error
    exit_status,  \* the exit status, -1 while the process runs
    opens,        \* how many times the process opened a file
    run,          \* which invocation this is (1, or 2 when the caller repeats it)
    first         \* what the caller read from the first invocation

vars == << argv, disk, pc, locals, todo, exc, features, stdout, stderr,
           exit_status, opens, run, first >>

env == << argv, disk, run, first >>

\* The argument lists of an invocation.
ArgvSet == UNION { [1..n -> ArgStrings] : n \in 0..MaxArgs }

\* A process at its start.
Fresh ==
    /\ pc = "main"
    /\ locals = NoLocals
    /\ todo = Features
    /\ exc = ""
    /\ features = <<>>
    /\ stdout = <<>>
    /\ stderr = <<>>
    /\ exit_status = -1
    /\ opens = 0

\* The content of a file the invocation never opens is immaterial: it is
\* varied only for the invocations that reach the decode of ExistingPath.
Init ==
    /\ argv \in ArgvSet
    /\ disk \in [{ExistingPath} ->
                    IF ~ArgcWrong(argv) /\ argv[1] = ExistingPath
                    THEN Audios
                    ELSE {CHOOSE a \in Audios : ~a.decodes}]
    /\ run = 1
    /\ first = [exit_status |-> -1, stdout |-> <<>>]
    /\ Fresh

\* main, the argument count is wrong: the usage message, exit 1.
MainUsage ==
    /\ pc = "main"
    /\ ArgcWrong(argv)
    /\ stderr' = Append(stderr, UsageMessage)
    /\ exit_status' = 1
    /\ pc' = "exited"
    /\ UNCHANGED << env, locals, todo, exc, features, stdout, opens >>

\* main calls extract_features(sys.argv[1], sys.argv[2]).
MainCall ==
    /\ pc = "main"
    /\ ~ArgcWrong(argv)
    /\ locals' = Bind(Bind(locals, "file_path", argv[1]), "original_filename", argv[2])
    /\ pc' = "load"
    /\ UNCHANGED << env, todo, exc, features, stdout, stderr, exit_status, opens >>

\* y, sr = librosa.load(file_path, sr=None, duration=None)
Load ==
    /\ pc = "load"
    /\ opens' = opens + 1
    /\ LET r == LibLoad(disk, locals.file_path)
       IN  IF r.err # ""
           THEN /\ exc' = r.err
                /\ pc' = "except"
                /\ UNCHANGED locals
           ELSE /\ locals' = Bind(Bind(locals, "y", r.val.y), "sr", r.val.sr)
                /\ pc' = "duration"
                /\ UNCHANGED exc
    /\ UNCHANGED << env, todo, features, stdout, stderr, exit_status >>

\* duration = librosa.get_duration(y=y, sr=sr)
GetDuration ==
    /\ pc = "duration"
    /\ LET r == LibGetDuration(locals.y, locals.sr)
       IN  IF r.err # ""
           THEN /\ exc' = r.err
                /\ pc' = "except"
                /\ UNCHANGED locals
           ELSE /\ locals' = Bind(locals, "duration", r.val)
                /\ pc' = "features"
                /\ UNCHANGED exc
    /\ UNCHANGED << env, todo, features, stdout, stderr, exit_status, opens >>

\* The first computation of the source order that has not run.
NextInSource(left) ==
    SourceOrder[CHOOSE i \in 1..Len(SourceOrder) :
                    /\ SourceOrder[i] \in left
                    /\ \A j \in 1..(i - 1) : SourceOrder[j] \notin left]

\* Feature computation f runs: it raises into the handler, or binds its
\* results; after the last one the dictionary is assembled.
FeatureStep(f) ==
    /\ pc = "features"
    /\ f \in todo
    /\ LET r == Compute(f, locals)
       IN  IF r.err # ""
           THEN /\ exc' = r.err
                /\ pc' = "except"
                /\ UNCHANGED << locals, todo >>
           ELSE /\ locals' = r.val
                /\ todo' = todo \ {f}
                /\ pc' = IF todo \ {f} = {} THEN "assemble" ELSE "features"
                /\ UNCHANGED exc
    /\ UNCHANGED << env, features, stdout, stderr, exit_status, opens >>

\* The feature computations in the order of the source.
FeatureInSourceOrder ==
    /\ todo # {}
    /\ FeatureStep(NextInSource(todo))

\* As Assemble, with the dictionary also printed before it is returned.
Assemble_DebugPrint ==
    /\ pc = "assemble"
    /\ features' = AssembleFeatures(locals)
    /\ stdout' = Append(stdout, JsonDumps(AssembleFeatures(locals)))
    /\ pc' = "print"
    /\ UNCHANGED << env, locals, todo, exc, stderr, exit_status, opens >>

\* features = {...}; return features
Assemble ==
    /\ pc = "assemble"
    /\ features' = AssembleFeatures(locals)
    /\ pc' = "print"
    /\ UNCHANGED << env, locals, todo, exc, stdout, stderr, exit_status, opens >>

\* As HandleException, with the sys.exit(1) forgotten: extract_features
\* returns None to main, which prints it.
HandleException_NoExit ==
    /\ pc = "except"
    /\ stderr' = Append(stderr,
                    ErrorMessage(locals.original_filename, locals.file_path, exc))
    /\ features' = <<>>
    /\ pc' = "print"
    /\ UNCHANGED << env, locals, todo, exc, stdout, exit_status, opens >>

\* except Exception as e: the message to stderr, sys.exit(1).
HandleException ==
    /\ pc = "except"
    /\ stderr' = Append(stderr,
                    ErrorMessage(locals.original_filename, locals.file_path, exc))
    /\ exit_status' = 1
    /\ pc' = "exited"
    /\ UNCHANGED << env, locals, todo, exc, features, stdout, opens >>

\* As PrintJson, with the temporary file removed once its features are
\* printed.
PrintJson_RemovesFile ==
    /\ pc = "print"
    /\ stdout' = Append(stdout, JsonDumps(features))
    /\ exit_status' = 0
    /\ pc' = "exited"
    /\ disk' = [p \in {} |-> 0]
    /\ UNCHANGED << argv, run, first, locals, todo, exc, features, stderr, opens >>

\* print(json.dumps(features, separators=(',', ':'))), and main returns.
PrintJson ==
    /\ pc = "print"
    /\ stdout' = Append(stdout, JsonDumps(features))
    /\ exit_status' = 0
    /\ pc' = "exited"
    /\ UNCHANGED << env, locals, todo, exc, features, stderr, opens >>

Next ==
    \/ MainUsage
    \/ MainCall
    \/ Load
    \/ GetDuration
    \/ FeatureInSourceOrder
    \/ Assemble
    \/ HandleException
    \/ PrintJson

Spec == Init /\ [][Next]_vars

\* The process is single-threaded and synchronous: a step that can be taken
\* is taken.
FairSpec == Spec /\ WF_vars(Next)

(* ---------------- the feature computations in any order ---------------- *)

\* Some feature computation that has not run runs next, whichever.
FeatureInAnyOrder == \E f \in todo : FeatureStep(f)

NextAnyOrder ==
    \/ MainUsage
    \/ MainCall
    \/ Load
    \/ GetDuration
    \/ FeatureInAnyOrder
    \/ Assemble
    \/ HandleException
    \/ PrintJson

\* The program with the five feature computations run in an arbitrary order.
SpecAnyOrder == Init /\ [][NextAnyOrder]_vars

\* The five computations run in the given order from the namespace loc: the
\* namespace after the last one, or the first exception.
RECURSIVE RunFeatures(_, _)
RunFeatures(order, loc) ==
    IF order = <<>> THEN Ok(loc)
    ELSE LET r == Compute(Head(order), loc)
         IN  IF r.err # "" THEN r ELSE RunFeatures(Tail(order), r.val)

(* ------------------- the caller repeats the invocation ----------------- *)

\* The caller, having read the outcome of the first invocation, runs the
\* program again with the same arguments: a new process, the same disk.
Reinvoke ==
    /\ pc = "exited"
    /\ run = 1
    /\ first' = [exit_status |-> exit_status, stdout |-> stdout]
    /\ run' = 2
    /\ pc' = "main"
    /\ locals' = NoLocals
    /\ todo' = Features
    /\ exc' = ""
    /\ features' = <<>>
    /\ stdout' = <<>>
    /\ stderr' = <<>>
    /\ exit_status' = -1
    /\ opens' = 0
    /\ UNCHANGED << argv, disk >>

NextTwice == Next \/ Reinvoke

SpecTwice == Init /\ [][NextTwice]_vars

(* ------------------------------ properties ----------------------------- *)

\* The library call that raises first when the program runs on these
\* arguments and files, in the order of the source; "none" when none does.
FirstRaising(args, dsk) ==
    IF args[1] \notin DOMAIN dsk THEN "missing"
    ELSE IF ~dsk[args[1]].decodes THEN "load"
    ELSE LET bad == {i \in 1..Len(PostDecodeCalls) :
                        PostDecodeCalls[i] \in dsk[args[1]].raises}
         IN  IF bad = {} THEN "none"
             ELSE PostDecodeCalls[CHOOSE i \in bad : \A j \in bad : i <= j]

\* The decode and all five feature computations succeed.
NothingRaises(args, dsk) == FirstRaising(args, dsk) = "none"

Contains(line, s) == \E i \in 1..Len(line) : line[i] = s

KeysOf(line) == {line[k].key : k \in 1..Len(line)}

ValueOf(line, key) == line[CHOOSE k \in 1..Len(line) : line[k].key = key]

Exited == pc = "exited"

\* C1: an invocation with exactly two arguments on which the decode and the
\* five feature computations succeed exits with status 0 having written
\* exactly one line to stdout, a record with exactly the ten keys (none
\* missing, none extra, none repeated) whose mfcc_means has 13 entries.
C1_SuccessWritesFullRecord ==
    (Exited /\ Len(argv) = 2 /\ NothingRaises(argv, disk)) =>
        /\ exit_status = 0
        /\ Len(stdout) = 1
        /\ Len(stdout[1]) = 10
        /\ KeysOf(stdout[1]) =
              { "duration", "mean_f0", "std_f0", "mean_spectral_centroid",
                "std_spectral_centroid", "mean_rms_energy", "std_rms_energy",
                "mean_zcr", "std_zcr", "mfcc_means" }
        /\ ValueOf(stdout[1], "mfcc_means").list
        /\ Len(ValueOf(stdout[1], "mfcc_means").text) = 13
        /\ \A k \in 1..Len(stdout[1]) :
              stdout[1][k].key # "mfcc_means" =>
                  ~stdout[1][k].list /\ Len(stdout[1][k].text) = 1

\* A run on a decodable file with two frames has exited with its record.
C1_Witness ==
    /\ Exited
    /\ Len(argv) = 2
    /\ NothingRaises(argv, disk)
    /\ disk[argv[1]].n_frames = 2
    /\ stdout # <<>>

\* C2: an invocation with exactly two arguments on which the decode or a
\* feature computation raises exits with status 1, writes nothing to stdout
\* and one diagnostic to stderr that holds the filename label, the file path
\* and the text of the exception that was raised; the file is opened once
\* (no retry) and no feature value is emitted.
C2_FailureWritesDiagnostic ==
    (Len(argv) = 2 /\ ~NothingRaises(argv, disk)) =>
        /\ stdout = <<>>
        /\ features = <<>>
        /\ opens <= 1
        /\ Exited =>
              /\ exit_status = 1
              /\ opens = 1
              /\ Len(stderr) = 1
              /\ Contains(stderr[1], argv[2])
              /\ Contains(stderr[1], argv[1])
              /\ Contains(stderr[1], ErrorText(FirstRaising(argv, disk)))

\* A run on a path that does not exist has exited.
C2_Witness ==
    /\ Exited
    /\ Len(argv) = 2
    /\ argv[1] \notin DOMAIN disk
    /\ argv[2] # argv[1]
    /\ stderr # <<>>

\* C3: with an argument count other than two the program never opens a file,
\* never enters the decode stage and never writes to stdout; it exits with
\* status 1 after the usage message.
C3_WrongArgcUsageOnly ==
    Len(argv) # 2 =>
        /\ opens = 0
        /\ stdout = <<>>
        /\ pc \in {"main", "exited"}
        /\ locals = NoLocals
        /\ Exited => exit_status = 1 /\ stderr = <<UsageMessage>>

\* A run with three arguments has exited.
C3_Witness == Exited /\ Len(argv) = 3 /\ stderr = <<UsageMessage>>

\* The two terminal outcomes: a process that has exited has status 0 or 1,
\* status 0 exactly when the argument count was two and nothing raised, with
\* the serialized line on stdout then and only then; a running process has
\* no status.
TwoOutcomes ==
    /\ ~Exited => exit_status = -1
    /\ Exited =>
          /\ exit_status \in {0, 1}
          /\ exit_status = 0 <=> (Len(argv) = 2 /\ NothingRaises(argv, disk))
          /\ exit_status = 0 <=> Len(stdout) = 1
          /\ exit_status = 1 <=> Len(stderr) = 1
          /\ exit_status = 1 <=> stdout = <<>>

\* C4: every execution terminates, in exactly one of the two outcomes success
\* (serialization done, exit status 0) and failure (exit status 1); status 0
\* is reached if and only if the argument count was two and no exception
\* occurred in the decode or the feature computations.
C4_TerminatesInOneOfTwoOutcomes == <>Exited /\ []TwoOutcomes

\* A run has ended in failure after the decode succeeded.
C4_Witness ==
    /\ Exited
    /\ exit_status = 1
    /\ "y" \in DOMAIN locals

\* The lines of stderr with the text of the exception taken out: what is left
\* of the diagnostic when the cause is not looked at.
ShapeOf(line) == IF Len(line) = 0 THEN line ELSE SubSeq(line, 1, Len(line) - 1)

AllCalls == {"missing", "load"} \cup {PostDecodeCalls[i] : i \in 1..Len(PostDecodeCalls)}

\* C5: whichever call inside the error boundary raises (the load, the
\* duration, or one of the five feature computations), the exception goes to
\* the one handler and the outcome has the same shape: one stderr message of
\* the form label + path + error text, exit status 1 and an empty stdout,
\* and none of the values computed before the failure is emitted.
C5_OneHandlerOneShape ==
    \A call \in AllCalls :
        (Len(argv) = 2 /\ FirstRaising(argv, disk) = call) =>
            /\ exc \in {"", ErrorText(call)}
            /\ exc # "" => pc \in {"except", "exited"}
            /\ pc \notin {"assemble", "print"}
            /\ stdout = <<>>
            /\ Exited =>
                  /\ exc = ErrorText(call)
                  /\ exit_status = 1
                  /\ Len(stderr) = 1
                  /\ ShapeOf(stderr[1]) =
                        << "Error processing file '", argv[2], "' (", argv[1], "): " >>
                  /\ stderr[1][Len(stderr[1])] = exc

\* The last feature computation failed after the four before it had bound
\* their results, and the run has exited.
C5_Witness ==
    /\ Exited
    /\ exc = ErrorText("mfcc")
    /\ {"mean_f0", "mean_spectral_centroid", "mean_rms_energy", "mean_zcr"}
          \subseteq DOMAIN locals
    /\ stdout = <<>>

\* The frames pYIN flags voiced, and the sum over them of f0 (of its square
\* deviation from m).
VoicedFrames(pitch) == {t \in 1..Len(pitch) : pitch[t].voiced}

RECURSIVE VoicedSum(_, _)
VoicedSum(pitch, n) ==
    IF n = 0 THEN 0
    ELSE VoicedSum(pitch, n - 1) + (IF pitch[n].voiced THEN pitch[n].f0.v ELSE 0)

RECURSIVE VoicedSquares(_, _, _)
VoicedSquares(pitch, n, m) ==
    IF n = 0 THEN 0
    ELSE VoicedSquares(pitch, n - 1, m)
            + (IF pitch[n].voiced THEN (pitch[n].f0.v - m) * (pitch[n].f0.v - m) ELSE 0)

\* The text json writes for the scalar under key.
ScalarText(line, key) == ValueOf(line, key).text[1]

\* C6: mean_f0 and std_f0 are the mean and the standard deviation of f0 over
\* exactly the frames flagged voiced.  When pYIN returns and flags no frame
\* voiced, the pitch step does not raise, both are exactly 0.0 (never NaN,
\* never unbound, never one defaulted and the other computed), and a run on
\* which nothing else raises exits 0 with 0 written for both.
C6_F0OverVoicedFramesOnly ==
    (Len(argv) = 2 /\ FirstRaising(argv, disk) \notin {"missing", "load"}) =>
        LET pitch  == disk[argv[1]].pitch
            voiced == VoicedFrames(pitch)
            n      == Cardinality(voiced)
        IN  /\ ("mean_f0" \in DOMAIN locals) <=> ("std_f0" \in DOMAIN locals)
            /\ ("pyin" \notin todo) <=> ("mean_f0" \in DOMAIN locals)
            /\ (exc = ErrorText("pyin")) => ("pyin" \in disk[argv[1]].raises)
            /\ ("mean_f0" \in DOMAIN locals) =>
                  /\ ~locals.mean_f0.nan /\ ~locals.std_f0.nan
                  /\ n = 0 => locals.mean_f0 = Fl(0) /\ locals.std_f0 = Fl(0)
                  /\ n > 0 =>
                        LET m == VoicedSum(pitch, Len(pitch)) \div n
                        IN  /\ locals.mean_f0.v = m
                            /\ locals.std_f0.v * locals.std_f0.v
                                  <= VoicedSquares(pitch, Len(pitch), m) \div n
                            /\ (locals.std_f0.v + 1) * (locals.std_f0.v + 1)
                                  > VoicedSquares(pitch, Len(pitch), m) \div n
            /\ (Exited /\ NothingRaises(argv, disk) /\ n = 0) =>
                  /\ exit_status = 0
                  /\ ScalarText(stdout[1], "mean_f0") = [lit |-> "num", num |-> 0]
                  /\ ScalarText(stdout[1], "std_f0") = [lit |-> "num", num |-> 0]

\* A run on audio with two frames, none voiced, has exited with its record.
C6_Witness ==
    /\ Exited
    /\ exit_status = 0
    /\ Len(disk[argv[1]].pitch) = 2
    /\ VoicedFrames(disk[argv[1]].pitch) = {}

RECURSIVE CoefficientSum(_, _, _)
CoefficientSum(y, i, n) ==
    IF n = 0 THEN 0 ELSE CoefficientSum(y, i, n - 1) + Coefficient(y, i, n)

BeforeFeatures(loc) ==
    [n \in {"file_path", "original_filename", "y", "sr", "duration"} |-> loc[n]]

\* C9 (under SpecAnyOrder): the five feature computations read the waveform
\* and the sample rate and no result of one another, so run in any order they
\* end in the outcome of the source order: the same exit status and, on
\* success, the same record.
C9_AnyOrderSameOutcome ==
    (Exited /\ "duration" \in DOMAIN locals) =>
        LET source == RunFeatures(SourceOrder, BeforeFeatures(locals))
        IN  /\ exit_status = 0 <=> source.err = ""
            /\ exit_status = 1 <=> source.err # ""
            /\ exit_status = 0 =>
                  stdout = << JsonDumps(AssembleFeatures(source.val)) >>
            /\ exit_status = 1 => stdout = <<>>

\* A run has computed the four other features before the pitch, whose call
\* then raised (in the source order it raises before anything is computed),
\* and has exited.
C9_Witness ==
    /\ Exited
    /\ exit_status = 1
    /\ exc = ErrorText("pyin")
    /\ {"mfcc_means", "mean_zcr", "mean_rms_energy", "mean_spectral_centroid"}
          \subseteq DOMAIN locals

\* The steps of the pipeline, stage by stage: from main to the load (or out,
\* on a usage error), through the duration and the feature computations to
\* the assembly, then the print; from any step inside the boundary to the
\* handler; from the print and from the handler out.
StageOrder ==
    { <<"main", "load">>, <<"main", "exited">>,
      <<"load", "duration">>, <<"duration", "features">>,
      <<"features", "features">>, <<"features", "assemble">>,
      <<"assemble", "print">>, <<"print", "exited">>,
      <<"load", "except">>, <<"duration", "except">>, <<"features", "except">>,
      <<"except", "exited">> }

ResultNames ==
    { "duration", "mean_f0", "std_f0", "mean_spectral_centroid",
      "std_spectral_centroid", "mean_rms_energy", "std_rms_energy",
      "mean_zcr", "std_zcr", "mfcc_means" }

Labelled(line) == Len(line) > 0 /\ line[1] = "Error processing file '"

StagesInv ==
    /\ Len(stdout) <= 1
    /\ stdout # <<>> =>
          /\ Exited /\ exit_status = 0
          /\ exc = "" /\ todo = {}
          /\ ResultNames \subseteq DOMAIN locals
    /\ ~Exited => stdout = <<>>
    /\ \A k \in 1..Len(stderr) :
          /\ Labelled(stderr[k]) => (Len(argv) = 2 /\ opens = 1 /\ exc # "")
          /\ stderr[k] = UsageMessage => (Len(argv) # 2 /\ opens = 0 /\ exc = "")
    /\ exc # "" => pc \in {"except", "exited"}

StagesStep ==
    /\ <<pc, pc'>> \in StageOrder
    /\ stdout' # stdout => pc = "print"
    /\ exc' # exc => pc \in {"load", "duration", "features"} /\ pc' = "except"
    /\ stderr' # stderr => pc \in {"main", "except"}

\* C10: the stages run in strict sequence (arguments, decode, feature
\* computation, serialization) with one failure boundary around the decode
\* and the feature computations; stdout is empty before the serialization
\* and written at most once, only after the decode and all five feature
\* computations completed without an exception; the labelled diagnostic is
\* written only for an exception raised inside the boundary, never for the
\* usage error.
C10_StagesInSequence == []StagesInv /\ [][StagesStep]_vars

\* A run has failed inside the boundary after some feature computations and
\* has written the labelled diagnostic.
C10_Witness ==
    /\ Exited
    /\ stderr # <<>>
    /\ Labelled(stderr[1])
    /\ "mean_rms_energy" \in DOMAIN locals

=============================================================================
